---- MODULE Spec2Model ----
(***************************************************************************)
(* Model of catalog/catalog.go of iceberg-go: the identifier helpers, the  *)
(* table-creation options and the namespace-properties reconciler          *)
(* getUpdatedPropsAndUpdateSummary.                                        *)
(*                                                                         *)
(* Go maps are reference values.  A map is modelled as a reference into    *)
(* `heap`; the nil map is the reference NilRef, which is not allocated.    *)
(* Reading a nil map yields the zero value, delete on it is a no-op and    *)
(* an assignment to one of its entries panics.                             *)
(***************************************************************************)
EXTENDS Integers, Sequences, FiniteSets, TLC

\* ------------------------------------------------------------------ bounds
MaxRemovals == 2      \* longest removal list enumerated
MaxIdentLen == 3      \* longest identifier enumerated
MaxLocLen   == 2      \* longest location string enumerated
MaxOpts     == 2      \* longest sequence of table-creation options

\* ------------------------------------------------------------- input sets
Keys     == {"a", "b", "c"}
Vals     == {"", "1"}            \* "" is the zero value of a Go string
Segments == {"ns", "db", "tbl"}
Chars    == {"/", "s"}
PartSpecs   == {"nil", "spec1", "spec2"}      \* *iceberg.PartitionSpec
SortOrders  == {"zero", "order1", "order2"}   \* table.SortOrder
PropsArgs   == {"nil", "props1", "props2"}    \* iceberg.Properties

SeqsUpTo(S, n) == UNION {[1..m -> S] : m \in 0..n}
Range(s) == {s[j] : j \in 1..Len(s)}

\* iceberg.Properties values: finite maps from keys to strings
EmptyMap == [k \in {} |-> ""]
MapsOver(K, V) == UNION {[D -> V] : D \in SUBSET K}

NilRef == 0

VARIABLES
    pc,            \* position of the reconciler call: call, run, done, panic
    heap,          \* allocated maps: reference -> contents
    currentProps,  \* argument currentProps (a reference, possibly NilRef)
    removals,      \* argument removals
    updates,       \* argument updates (read only; nil behaves as empty)
    updatedProps,  \* local updatedProps (a reference)
    removed,       \* local removed
    updated,       \* local updated
    i,             \* index of the next element of `range removals`
    pending,       \* keys `range updates` has not visited yet
    ret,           \* the values returned
    call,          \* 1 for the first application, 2 for the repeated one
    entry,         \* contents of the caller's map when the call was made
    first,         \* what the first application returned
    ident,         \* identifier handed to the identifier helpers
    tableName,     \* result of TableNameFromIdent
    namespace,     \* result of NamespaceFromIdent
    cfg,           \* the createTableCfg under construction
    applied        \* the options applied to cfg so far, in order

reconVars == <<pc, heap, currentProps, removals, updates, updatedProps,
               removed, updated, i, pending, ret, call, entry, first>>
identVars == <<ident, tableName, namespace>>
optVars   == <<cfg, applied>>
vars      == <<reconVars, identVars, optVars>>

\* --------------------------------------------------------------- Go maps
\* m[k] on a map value: the zero value when the key is absent (or m is nil)
MapOf(h, r) == IF r = NilRef THEN EmptyMap ELSE h[r]
Lookup(h, r, k) == IF k \in DOMAIN MapOf(h, r) THEN MapOf(h, r)[k] ELSE ""
Exists(h, r, k) == k \in DOMAIN MapOf(h, r)
DeleteAll(h, r, k) ==
    IF r = NilRef THEN h ELSE [h EXCEPT ![r] = EmptyMap]
\* delete(m, k): no-op on a nil map or an absent key
Delete(h, r, k) ==
    IF r = NilRef THEN h
    ELSE [h EXCEPT ![r] = [x \in (DOMAIN h[r]) \ {k} |-> h[r][x]]]
\* m[k] = v on an allocated map
Store(h, r, k, v) ==
    [h EXCEPT ![r] = [x \in (DOMAIN h[r]) \cup {k} |-> IF x = k THEN v ELSE h[r][x]]]

NewRef(h) == Cardinality(DOMAIN h) + 1

\* maps.Clone: nil stays nil, otherwise a fresh map with the same entries
CloneRefAlias(h, r) == r
CloneRef(h, r) == IF r = NilRef THEN NilRef ELSE NewRef(h)
CloneHeap(h, r) == IF r = NilRef THEN h ELSE (NewRef(h) :> h[r]) @@ h

\* --------------------------------------------------------- pure functions
\* iceberg.Difference(a, b): the elements of a that are not in b
Difference(a, b) == SelectSeq(a, LAMBDA x : x \notin Range(b))

\* A []string is a sequence; a nil slice and an empty one both have length
\* 0 and are both <<>>.  An error is the list of keys its message prints.
NoErr == [isErr |-> FALSE, keys |-> <<>>]
ZeroSummary == [Removed |-> <<>>, Updated |-> <<>>, Missing |-> <<>>]

checkForOverlapFirst(rem, upd) ==
    LET overlap == SelectSeq(rem, LAMBDA key : key \in DOMAIN upd)
    IN  IF Len(overlap) > 0
        THEN [isErr |-> TRUE, keys |-> <<overlap[1]>>]
        ELSE NoErr
\* checkForOverlap: the error carries every removal key that updates has
checkForOverlap(rem, upd) ==
    LET overlap == SelectSeq(rem, LAMBDA key : key \in DOMAIN upd)
    IN  IF Len(overlap) > 0
        THEN [isErr |-> TRUE, keys |-> overlap]
        ELSE NoErr

NoRet == [props |-> NilRef, summary |-> ZeroSummary, err |-> NoErr]
NoFirst == [props |-> EmptyMap, summary |-> ZeroSummary]

\* the zero value of createTableCfg (a string is a sequence of characters)
ZeroCfg == [location |-> <<>>, partitionSpec |-> "nil",
            sortOrder |-> "zero", properties |-> "nil"]

\* ------------------------------------------------------------ reconciler
Unset == [status |-> "unset", val |-> <<>>]
UnsetName == [status |-> "unset", val |-> ""]
IdentIdle == ident = <<>> /\ tableName = UnsetName /\ namespace = Unset
OptIdle ==
    /\ cfg = ZeroCfg
    /\ applied = <<>>

InitRecon ==
    /\ pc = "call"
    /\ \E m \in MapsOver(Keys, Vals) :
          \/ currentProps = 1 /\ heap = (1 :> m) /\ entry = m
          \/ m = EmptyMap /\ currentProps = NilRef /\ heap = <<>> /\ entry = m
    /\ removals \in SeqsUpTo(Keys, MaxRemovals)
    /\ updates \in MapsOver(Keys, Vals)
    /\ updatedProps = NilRef
    /\ removed = <<>>
    /\ updated = <<>>
    /\ i = 1
    /\ pending = {}
    /\ ret = NoRet
    /\ call = 1
    /\ first = NoFirst
    /\ IdentIdle
    /\ OptIdle

\* lines 224-231: the conflict check, then the clone and the empty slices
Enter ==
    /\ pc = "call"
    /\ LET err == checkForOverlap(removals, updates) IN
       IF err.isErr
       THEN /\ ret' = [props |-> NilRef, summary |-> ZeroSummary, err |-> err]
            /\ pc' = "done"
            /\ UNCHANGED <<heap, updatedProps, pending>>
       ELSE /\ updatedProps' = CloneRef(heap, currentProps)
            /\ heap' = CloneHeap(heap, currentProps)
            /\ pending' = DOMAIN updates
            /\ pc' = "run"
            /\ ret' = ret
    /\ removed' = <<>>
    /\ updated' = <<>>
    /\ i' = 1
    /\ UNCHANGED <<currentProps, removals, updates, call, entry, first,
                   identVars, optVars>>

\* lines 233-238: one iteration of `for _, key := range removals`
RemoveKeyKeep ==
    /\ pc = "run"
    /\ i <= Len(removals)
    /\ LET key == removals[i] IN
       IF Exists(heap, updatedProps, key)
       THEN /\ heap' = heap
            /\ removed' = Append(removed, key)
       ELSE UNCHANGED <<heap, removed>>
    /\ i' = i + 1
    /\ UNCHANGED <<pc, currentProps, removals, updates, updatedProps, updated,
                   pending, ret, call, entry, first, identVars, optVars>>
RemoveKeyAlways ==
    /\ pc = "run"
    /\ i <= Len(removals)
    /\ LET key == removals[i] IN
       /\ heap' = Delete(heap, updatedProps, key)
       /\ removed' = Append(removed, key)
    /\ i' = i + 1
    /\ UNCHANGED <<pc, currentProps, removals, updates, updatedProps, updated,
                   pending, ret, call, entry, first, identVars, optVars>>
RemoveKey ==
    /\ pc = "run"
    /\ i <= Len(removals)
    /\ LET key == removals[i] IN
       IF Exists(heap, updatedProps, key)
       THEN /\ heap' = Delete(heap, updatedProps, key)
            /\ removed' = Append(removed, key)
       ELSE UNCHANGED <<heap, removed>>
    /\ i' = i + 1
    /\ UNCHANGED <<pc, currentProps, removals, updates, updatedProps, updated,
                   pending, ret, call, entry, first, identVars, optVars>>

\* lines 240-245: one iteration of `for key, value := range updates`; Go
\* visits the keys of a map in an unspecified order
UpdateKeyAlways ==
    /\ pc = "run"
    /\ i > Len(removals)
    /\ \E key \in pending :
          /\ pending' = pending \ {key}
          /\ IF updatedProps = NilRef
             THEN /\ pc' = "panic"
                  /\ UNCHANGED <<heap, updated>>
             ELSE /\ updated' = Append(updated, key)
                  /\ heap' = Store(heap, updatedProps, key, updates[key])
                  /\ pc' = pc
    /\ UNCHANGED <<currentProps, removals, updates, updatedProps, removed, i,
                   ret, call, entry, first, identVars, optVars>>
UpdateKey ==
    /\ pc = "run"
    /\ i > Len(removals)
    /\ \E key \in pending :
          /\ pending' = pending \ {key}
          /\ IF Lookup(heap, updatedProps, key) # updates[key]
             THEN IF updatedProps = NilRef
                  THEN \* assignment to entry in nil map
                       /\ pc' = "panic"
                       /\ UNCHANGED <<heap, updated>>
                  ELSE /\ updated' = Append(updated, key)
                       /\ heap' = Store(heap, updatedProps, key, updates[key])
                       /\ pc' = pc
             ELSE UNCHANGED <<pc, heap, updated>>
    /\ UNCHANGED <<currentProps, removals, updates, updatedProps, removed, i,
                   ret, call, entry, first, identVars, optVars>>

\* lines 247-252: build the summary and return
Return ==
    /\ pc = "run"
    /\ i > Len(removals)
    /\ pending = {}
    /\ ret' = [props |-> updatedProps,
               summary |-> [Removed |-> removed,
                            Updated |-> updated,
                            Missing |-> Difference(removals, removed)],
               err |-> NoErr]
    /\ pc' = "done"
    /\ UNCHANGED <<heap, currentProps, removals, updates, updatedProps, removed,
                   updated, i, pending, call, entry, first, identVars, optVars>>

\* the same (removals, updates) applied to the properties just returned
CallAgain ==
    /\ pc = "done"
    /\ call = 1
    /\ ~ret.err.isErr
    /\ first' = [props |-> MapOf(heap, ret.props), summary |-> ret.summary]
    /\ currentProps' = ret.props
    /\ entry' = MapOf(heap, ret.props)
    /\ call' = 2
    /\ pc' = "call"
    /\ ret' = NoRet
    /\ updatedProps' = NilRef
    /\ removed' = <<>>
    /\ updated' = <<>>
    /\ i' = 1
    /\ pending' = {}
    /\ UNCHANGED <<heap, removals, updates, identVars, optVars>>

getUpdatedPropsAndUpdateSummary ==
    \/ Enter
    \/ RemoveKey
    \/ UpdateKey
    \/ Return

Next == getUpdatedPropsAndUpdateSummary \/ CallAgain

Spec == InitRecon /\ [][Next]_vars

\* ----------------------------------------------------------- identifiers
\* a table.Identifier is a []string
TableNameFromIdentFirst(id) ==
    IF Len(id) = 0 THEN "" ELSE id[1]
TableNameFromIdent(id) ==
    IF Len(id) = 0 THEN "" ELSE id[Len(id)]

\* ident[:len(ident)-1]: a slice expression with a negative bound panics
NamespaceFromIdentTail(id) ==
    IF Len(id) - 1 < 0
    THEN [status |-> "panic", val |-> <<>>]
    ELSE [status |-> "ok", val |-> SubSeq(id, 2, Len(id))]
NamespaceFromIdent(id) ==
    IF Len(id) - 1 < 0
    THEN [status |-> "panic", val |-> <<>>]
    ELSE [status |-> "ok", val |-> SubSeq(id, 1, Len(id) - 1)]

ReconIdle ==
    /\ pc = "idle" /\ heap = <<>> /\ currentProps = NilRef /\ removals = <<>>
    /\ updates = EmptyMap /\ updatedProps = NilRef /\ removed = <<>>
    /\ updated = <<>> /\ i = 1 /\ pending = {} /\ ret = NoRet /\ call = 1
    /\ entry = EmptyMap /\ first = NoFirst

InitIdent ==
    /\ ident \in SeqsUpTo(Segments, MaxIdentLen)
    /\ tableName = UnsetName
    /\ namespace = Unset
    /\ ReconIdle
    /\ OptIdle

CallTableNameFromIdent ==
    /\ tableName = UnsetName
    /\ tableName' = [status |-> "ok", val |-> TableNameFromIdent(ident)]
    /\ UNCHANGED <<ident, namespace, reconVars, optVars>>

CallNamespaceFromIdent ==
    /\ namespace = Unset
    /\ namespace' = NamespaceFromIdent(ident)
    /\ UNCHANGED <<ident, tableName, reconVars, optVars>>

NextIdent == CallTableNameFromIdent \/ CallNamespaceFromIdent

SpecIdent == InitIdent /\ [][NextIdent]_vars

\* ------------------------------------------------- table-creation options
RECURSIVE TrimRight(_)
TrimSuffix(s) ==
    IF Len(s) > 0 /\ s[Len(s)] = "/" THEN SubSeq(s, 1, Len(s) - 1) ELSE s
\* strings.TrimRight(location, "/"): drop every trailing '/'
TrimRight(s) ==
    IF Len(s) > 0 /\ s[Len(s)] = "/"
    THEN TrimRight(SubSeq(s, 1, Len(s) - 1))
    ELSE s

InitOpts ==
    /\ cfg = ZeroCfg
    /\ applied = <<>>
    /\ ReconIdle
    /\ IdentIdle

WithLocation ==
    /\ Len(applied) < MaxOpts
    /\ \E location \in SeqsUpTo(Chars, MaxLocLen) :
          /\ cfg' = [cfg EXCEPT !.location = TrimRight(location)]
          /\ applied' = Append(applied, [opt |-> "WithLocation", arg |-> location])
    /\ UNCHANGED <<reconVars, identVars>>

WithPartitionSpec ==
    /\ Len(applied) < MaxOpts
    /\ \E spec \in PartSpecs :
          /\ cfg' = [cfg EXCEPT !.partitionSpec = spec]
          /\ applied' = Append(applied, [opt |-> "WithPartitionSpec", arg |-> spec])
    /\ UNCHANGED <<reconVars, identVars>>

WithSortOrderFirst ==
    /\ Len(applied) < MaxOpts
    /\ \E order \in SortOrders :
          /\ cfg' = IF cfg.sortOrder = "zero"
                    THEN [cfg EXCEPT !.sortOrder = order]
                    ELSE cfg
          /\ applied' = Append(applied, [opt |-> "WithSortOrder", arg |-> order])
    /\ UNCHANGED <<reconVars, identVars>>
WithSortOrder ==
    /\ Len(applied) < MaxOpts
    /\ \E order \in SortOrders :
          /\ cfg' = [cfg EXCEPT !.sortOrder = order]
          /\ applied' = Append(applied, [opt |-> "WithSortOrder", arg |-> order])
    /\ UNCHANGED <<reconVars, identVars>>

WithProperties ==
    /\ Len(applied) < MaxOpts
    /\ \E props \in PropsArgs :
          /\ cfg' = [cfg EXCEPT !.properties = props]
          /\ applied' = Append(applied, [opt |-> "WithProperties", arg |-> props])
    /\ UNCHANGED <<reconVars, identVars>>

NextOpts == WithLocation \/ WithPartitionSpec \/ WithSortOrder \/ WithProperties

SpecOpts == InitOpts /\ [][NextOpts]_vars

\* =================================================================== claims
Returned == pc = "done" /\ ~ret.err.isErr
Conflict == \E k \in Range(removals) : k \in DOMAIN updates
ResultProps == MapOf(heap, ret.props)
NoDuplicates(s) == Cardinality(Range(s)) = Len(s)

\* C1: when some key is both in removals and a key of updates, the call
\* returns a conflict error naming every such key, no property map and an
\* empty summary, never starts the removals, and leaves current unchanged.
C1_ConflictNamesEveryKey ==
    Conflict =>
        /\ pc \in {"call", "done"}
        /\ pc = "done" =>
              /\ ret.err.isErr
              /\ Range(ret.err.keys) = Range(removals) \cap DOMAIN updates
              /\ ret.props = NilRef
              /\ ret.summary = ZeroSummary
              /\ MapOf(heap, currentProps) = entry
              /\ \A r \in DOMAIN heap : r = currentProps
C1_Witness ==
    /\ pc = "done"
    /\ ret.err.isErr
    /\ Cardinality(Range(ret.err.keys)) = 2
    /\ entry # EmptyMap

\* C2: in the summary of a conflict-free call no key is in both Removed and
\* Missing, every element of removals (repeated ones too) is in exactly one
\* of them, and Missing holds exactly the removals that were not keys of
\* current.
C2_RemovedMissingPartition ==
    Returned =>
        /\ Range(ret.summary.Removed) \cap Range(ret.summary.Missing) = {}
        /\ \A j \in 1..Len(removals) :
              removals[j] \in Range(ret.summary.Removed) \cup Range(ret.summary.Missing)
        /\ Range(ret.summary.Missing) = {k \in Range(removals) : k \notin DOMAIN entry}
C2_Witness ==
    /\ Returned
    /\ Len(removals) = 2
    /\ ret.summary.Removed # <<>>
    /\ \/ ret.summary.Missing # <<>>
       \/ removals[1] = removals[2]

\* C3: applying the same (removals, updates) to the properties a
\* conflict-free call returned gives the same properties again, with Removed
\* and Updated empty and Missing equal to removals.
C3_Idempotent ==
    call = 2 =>
        /\ pc # "panic"
        /\ pc = "done" =>
              /\ ~ret.err.isErr
              /\ ResultProps = first.props
              /\ ret.summary.Removed = <<>>
              /\ ret.summary.Updated = <<>>
              /\ ret.summary.Missing = removals
C3_Witness ==
    /\ call = 2
    /\ Returned
    /\ first.summary.Removed # <<>>
    /\ first.summary.Updated # <<>>

\* C4: a key of updates that current already maps to the same value is not
\* in Updated, and the returned properties still map it to that value.
C4_NoOpNotReported ==
    Returned =>
        \A k \in DOMAIN updates \cap DOMAIN entry :
            updates[k] = entry[k] =>
                /\ k \notin Range(ret.summary.Updated)
                /\ k \in DOMAIN ResultProps
                /\ ResultProps[k] = entry[k]
C4_Witness ==
    /\ Returned
    /\ ret.summary.Updated # <<>>
    /\ \E k \in DOMAIN updates \cap DOMAIN entry :
          updates[k] = entry[k] /\ updates[k] # ""

\* C5: at every point of a call, on the conflict path and on the success
\* path, the caller's current map has the entries it had when the call was
\* made; a non-nil current is never the map that is returned.
C5_CurrentNeverMutated ==
    /\ MapOf(heap, currentProps) = entry
    /\ (pc = "done" /\ currentProps # NilRef) => ret.props # currentProps
C5_Witness ==
    /\ Returned
    /\ currentProps # NilRef
    /\ ret.summary.Removed # <<>>
    /\ ret.summary.Updated # <<>>
    /\ ResultProps # entry

\* C9: after a conflict-free call every (key, value) of updates whose key
\* was absent from current or mapped to another value is in the returned
\* properties with that value and is recorded in Updated, also when the key
\* was absent and the value is the empty string.
C9_EveryChangeApplied ==
    Returned =>
        \A k \in DOMAIN updates :
            (k \notin DOMAIN entry \/ entry[k] # updates[k]) =>
                /\ k \in DOMAIN ResultProps
                /\ ResultProps[k] = updates[k]
                /\ k \in Range(ret.summary.Updated)

\* C10: after a conflict-free call Removed holds exactly the removals that
\* were keys of current, each once; none of them is a key of the returned
\* properties; a key of current that is in neither removals nor updates
\* keeps its value.
C10_RemovedExactly ==
    Returned =>
        /\ Range(ret.summary.Removed) = Range(removals) \cap DOMAIN entry
        /\ NoDuplicates(ret.summary.Removed)
        /\ \A k \in Range(ret.summary.Removed) : k \notin DOMAIN ResultProps
        /\ \A k \in DOMAIN entry \ (Range(removals) \cup DOMAIN updates) :
              k \in DOMAIN ResultProps /\ ResultProps[k] = entry[k]
C10_Witness ==
    /\ Returned
    /\ Len(removals) = 2
    /\ removals[1] = removals[2]
    /\ Len(ret.summary.Removed) = 1
    /\ DOMAIN entry \ (Range(removals) \cup DOMAIN updates) # {}

\* C6: for an identifier of length >= 1 TableNameFromIdent is its last
\* segment and NamespaceFromIdent its first len-1 segments in order; for the
\* empty identifier TableNameFromIdent is the empty string.
C6_IdentDecomposition ==
    /\ tableName.status = "ok" =>
          IF Len(ident) = 0
          THEN tableName.val = ""
          ELSE tableName.val = ident[Len(ident)]
    /\ (namespace.status # "unset" /\ Len(ident) >= 1) =>
          /\ namespace.status = "ok"
          /\ Len(namespace.val) = Len(ident) - 1
          /\ \A j \in 1..Len(namespace.val) : namespace.val[j] = ident[j]
C6_Witness ==
    /\ Len(ident) >= 2
    /\ ident[1] # ident[Len(ident)]
    /\ tableName.status = "ok"
    /\ namespace.status = "ok"

\* C7: NamespaceFromIdent on the empty identifier ends with an
\* invalid-argument error or with an empty namespace, never abnormally.
C7_EmptyIdentDefined ==
    (Len(ident) = 0 /\ namespace.status # "unset") =>
        \/ namespace.status = "error"
        \/ namespace.status = "ok" /\ namespace.val = <<>>

\* C8: after any sequence of options applied to a zero createTableCfg each
\* field has the value of the last option that targets it (the location
\* without its trailing '/' characters), and a field no option targets is
\* still zero.
LastOf(kind) ==
    LET idx == {j \in 1..Len(applied) : applied[j].opt = kind}
    IN  IF idx = {} THEN 0 ELSE CHOOSE j \in idx : \A l \in idx : l <= j
StrippedOf(arg, res) ==
    /\ Len(res) <= Len(arg)
    /\ res = SubSeq(arg, 1, Len(res))
    /\ Len(res) > 0 => res[Len(res)] # "/"
    /\ \A j \in (Len(res) + 1)..Len(arg) : arg[j] = "/"
C8_LastOptionWins ==
    /\ IF LastOf("WithLocation") = 0
       THEN cfg.location = ZeroCfg.location
       ELSE StrippedOf(applied[LastOf("WithLocation")].arg, cfg.location)
    /\ IF LastOf("WithPartitionSpec") = 0
       THEN cfg.partitionSpec = ZeroCfg.partitionSpec
       ELSE cfg.partitionSpec = applied[LastOf("WithPartitionSpec")].arg
    /\ IF LastOf("WithSortOrder") = 0
       THEN cfg.sortOrder = ZeroCfg.sortOrder
       ELSE cfg.sortOrder = applied[LastOf("WithSortOrder")].arg
    /\ IF LastOf("WithProperties") = 0
       THEN cfg.properties = ZeroCfg.properties
       ELSE cfg.properties = applied[LastOf("WithProperties")].arg
C8_Witness ==
    /\ Len(applied) = 2
    /\ applied[1].opt = "WithLocation"
    /\ applied[2].opt = "WithLocation"
    /\ applied[1].arg = <<"s">>
    /\ applied[2].arg = <<"/", "/">>
    /\ cfg.location = <<>>
    /\ cfg.sortOrder = "zero"

====
